---- MODULE Spec2Model ----
(***************************************************************************)
(* Model of the AudioLinguist class of src/audio-splitter.js (the second,  *)
(* complete class of the file, lines 560-1620).                            *)
(*                                                                         *)
(* Times are word timestamps in tenths of a second (0.4 s is 4, 2.6 s is   *)
(* 26, the 10.0 s absorption window is 100).  A text is a sequence of      *)
(* one-character strings, so that trim, the number pattern and parseInt    *)
(* are computed on the characters.                                         *)
(***************************************************************************)
EXTENDS Integers, Sequences, FiniteSets, TLC

VARIABLES
    settings,            \* this.settings: [minSegmentDuration]
    words,               \* findSegmentsByNumberPattern: transcription.chunks
    i,                   \* findSegmentsByNumberPattern: loop index (1-based)
    currentSegment,      \* findSegmentsByNumberPattern: let currentSegment
    foundSegments,       \* findSegmentsByNumberPattern: const segments
    dpc,                 \* findSegmentsByNumberPattern: "loop" | "done"
    audioContext,        \* this.audioContext: Null or the context
    audioFile,           \* this.audioFile: Null or the selected file
    audioBuffer,         \* this.audioBuffer: Null or an AudioBuffer
    segments,            \* this.segments
    whisperPipeline,     \* this.whisperPipeline: Null or the loaded pipeline
    loader,              \* loadWhisperModel: "loading" | "loaded" | "failed"
    isProcessing,        \* this.isProcessing
    transcriptionInProgress, \* this._transcriptionInProgress
    transcriptionDepth,  \* this._transcriptionDepth
    status,              \* the status message shown by updateStatus
    displayed,           \* the segment cards of #segmentsContainer
    convs,               \* the convertAudioTo16kMono calls awaiting a result
    run,                 \* the processAudio call in flight: its position, the
                         \* name of the file selected and whether that file was
                         \* still being converted when it started, the audio
                         \* it transcribed and extracted from, its result
    reportOf,            \* history: what the last run of each kind reported
    extInput,            \* extractSegmentsFromTimestamps: parameter segments
    audioSegments,       \* extractSegmentsFromTimestamps: const audioSegments
    xi,                  \* extractSegmentsFromTimestamps: loop index (1-based)
    xpc,                 \* extractSegmentsFromTimestamps: "idle"|"loop"|"done"|"threw"
    downloads,           \* the files downloadSegment handed to the browser
    selectable,          \* the files the user has at hand to select or drop
    returned,            \* history: the earlier calls of the detector, each
                         \* with its input, its setting and what it returned
    wavInput,            \* bufferToWav: channelData, the samples to convert
    wavBytes,            \* bufferToWav: the bytes written after the header
    openPushed,          \* findSegmentsByNumberPattern: currentSegment refers
                         \* to the very object that is the last element of
                         \* segments
    dragCounter,         \* this.dragCounter
    dragOver             \* #uploadArea carries the class drag-over

detVars == <<words, i, currentSegment, foundSegments, dpc, openPushed>>
pipeVars == <<audioContext, audioFile, audioBuffer, segments, whisperPipeline,
              loader, isProcessing, transcriptionInProgress, transcriptionDepth,
              status, displayed, convs, run, reportOf>>
extVars == <<extInput, audioSegments, xi, xpc>>
wavVars == <<wavInput, wavBytes>>
dragVars == <<dragCounter, dragOver>>
vars == <<settings, detVars, pipeVars, extVars, downloads, selectable, returned,
          wavVars, dragVars>>

----------------------------------------------------------------------------
(* Bounds of the model *)

\* longest token sequence drawn for the detector
MaxWords == 3
\* longest text (in characters) drawn for the marker-pattern check
MaxTextLen == 3

----------------------------------------------------------------------------
(* Values *)

\* JavaScript null
Null == [null |-> TRUE]

\* the instance as the constructor leaves it, before init() has any effect
\* (_transcriptionInProgress and _transcriptionDepth are not set before the
\* first call of transcribeEntireAudio, whose tests read them as false and 0)
PipelineAtRest ==
    /\ audioContext = Null
    /\ audioFile = Null
    /\ audioBuffer = Null
    /\ segments = <<>>
    /\ whisperPipeline = Null
    /\ loader = "loading"
    /\ isProcessing = FALSE
    /\ transcriptionInProgress = FALSE
    /\ transcriptionDepth = 0
    /\ status = [type |-> "info", msg |-> "Ready to process", n |-> 0]
    /\ displayed = <<>>
    /\ convs = <<>>
    /\ run = [pc |-> "idle"]
    /\ reportOf = [failed |-> Null, zero |-> Null]

\* no call of extractSegmentsFromTimestamps under way
ExtractorAtRest ==
    /\ extInput = <<>>
    /\ audioSegments = <<>>
    /\ xi = 1
    /\ xpc = "idle"

\* nothing downloaded yet, no file at hand
\* this.dragCounter = 0; the upload area is not highlighted
DragAtRest ==
    /\ dragCounter = 0
    /\ dragOver = FALSE

DownloaderAtRest ==
    downloads = <<>> /\ selectable = {} /\ wavInput = <<>> /\ wavBytes = <<>>

\* the detector not running
DetectorAtRest ==
    /\ words = <<>>
    /\ i = 1
    /\ currentSegment = Null
    /\ foundSegments = <<>>
    /\ dpc = "done"
    /\ openPushed = FALSE
    /\ returned = <<>>

Digits == {"0", "1", "2", "3", "4", "5", "6", "7", "8", "9"}
WhiteSpace == {" "}

\* default of settings.minSegmentDuration: 2.0 s
DefaultMinSegmentDuration == 20
\* the slider of index.html: min 1.0, max 5.0, step 0.5
SliderValues == {10, 15, 20, 25, 30, 35, 40, 45, 50}
\* the absorption window of findSegmentsByNumberPattern: 10.0 s
AbsorptionWindow == 100

----------------------------------------------------------------------------
(* String helpers: String.prototype.trim, RegExp.test, parseInt *)

RECURSIVE TrimStart(_)
TrimStart(s) ==
    IF s # <<>> /\ Head(s) \in WhiteSpace THEN TrimStart(Tail(s)) ELSE s

RECURSIVE TrimEnd(_)
TrimEnd(s) ==
    IF s # <<>> /\ s[Len(s)] \in WhiteSpace
    THEN TrimEnd(SubSeq(s, 1, Len(s) - 1))
    ELSE s

\* word.text.trim()
Trim(s) == TrimEnd(TrimStart(s))

\* the number of leading characters of s that \d matches
RECURSIVE DigitRun(_)
DigitRun(s) ==
    IF s # <<>> /\ Head(s) \in Digits THEN 1 + DigitRun(Tail(s)) ELSE 0

\* /^\d+/ : a run of digits at the start, anything after it
NumberPatternNoEnd(s) == DigitRun(s) >= 1

\* englishNumberPattern.test(s) for /^\d+$/ : the match starts at the first
\* character, takes one or more digits and must stop at the end of the input
NumberPatternTest(s) == DigitRun(s) >= 1 /\ DigitRun(s) = Len(s)

DigitValue(c) ==
    CASE c = "0" -> 0 [] c = "1" -> 1 [] c = "2" -> 2 [] c = "3" -> 3
      [] c = "4" -> 4 [] c = "5" -> 5 [] c = "6" -> 6 [] c = "7" -> 7
      [] c = "8" -> 8 [] c = "9" -> 9

RECURSIVE DecimalValue(_, _)
DecimalValue(s, acc) ==
    IF s # <<>> /\ Head(s) \in Digits
    THEN DecimalValue(Tail(s), 10 * acc + DigitValue(Head(s)))
    ELSE acc

\* parseInt(s): the decimal value of the leading digits of s (radix 10);
\* NaN, written Null, when there is none
ParseInt(s) ==
    LET t == TrimStart(s)
    IN IF DigitRun(t) = 0 THEN Null ELSE DecimalValue(t, 0)

----------------------------------------------------------------------------
(* findSegmentsByNumberPattern *)

Word(text, start, end) == [text |-> text, timestamp |-> <<start, end>>]

\* the segment opened with the text of the word as it came, not trimmed
NewSegmentUntrimmed(word) ==
    [startTime |-> word.timestamp[1],
     endTime   |-> word.timestamp[2],
     words     |-> <<word>>,
     text      |-> word.text,
     number    |-> ParseInt(Trim(word.text))]

\* the segment object opened at a number word
NewSegment(word) ==
    [startTime |-> word.timestamp[1],
     endTime   |-> word.timestamp[2],
     words     |-> <<word>>,
     text      |-> Trim(word.text),
     number    |-> ParseInt(Trim(word.text))]

\* any open segment is kept, whatever its duration
LongEnoughAlways(seg, minDur) == TRUE

\* any segment that lasts more than nothing kept, whatever the minimum
LongEnoughNonEmpty(seg, minDur) == seg.endTime - seg.startTime > 0

\* the comparison made strict: a segment of exactly the minimum is dropped
LongEnoughStrict(seg, minDur) == seg.endTime - seg.startTime > minDur

\* currentSegment.endTime - currentSegment.startTime >= minSegmentDuration
LongEnough(seg, minDur) == seg.endTime - seg.startTime >= minDur

\* the segment put at the front of the list (unshift) instead of pushed
PushFrontIfValid(segs, cur, minDur) ==
    IF cur # Null /\ LongEnough(cur, minDur) THEN <<cur>> \o segs ELSE segs

\* the open segment pushed twice when it is long enough
PushTwiceIfValid(segs, cur, minDur) ==
    IF cur # Null /\ LongEnough(cur, minDur)
    THEN Append(Append(segs, cur), cur)
    ELSE segs

\* the open segment pushed whatever its duration
PushAlways(segs, cur, minDur) ==
    IF cur # Null THEN Append(segs, cur) ELSE segs

\* if (currentSegment && long enough) segments.push(currentSegment)
PushIfValid(segs, cur, minDur) ==
    IF cur # Null /\ LongEnough(cur, minDur) THEN Append(segs, cur) ELSE segs

\* a word that only begins with digits taken for a number
IsNumberWordPrefix(word) == DigitRun(Trim(word.text)) >= 1

IsNumberWord(word) == NumberPatternTest(Trim(word.text))

\* the window closed at its end: a word exactly 10.0 s after the start absorbed
WithinWindowInclusive(cur, word) ==
    word.timestamp[1] - cur.startTime <= AbsorptionWindow

\* word.timestamp[0] - currentSegment.startTime < 10.0
WithinWindow(cur, word) == word.timestamp[1] - cur.startTime < AbsorptionWindow

\* the word joined to the text without the separating space
AbsorbNoSpace(cur, word) ==
    [cur EXCEPT !.endTime = word.timestamp[2],
                !.words = Append(@, word),
                !.text = @ \o Trim(word.text)]

\* the text of the word joined as it came, not trimmed
AbsorbUntrimmed(cur, word) ==
    [cur EXCEPT !.endTime = word.timestamp[2],
                !.words = Append(@, word),
                !.text = @ \o <<" ">> \o word.text]

\* the three assignments of the absorbing branch
Absorb(cur, word) ==
    [cur EXCEPT !.endTime = word.timestamp[2],
                !.words = Append(@, word),
                !.text = @ \o <<" ">> \o Trim(word.text)]

\* one iteration of the for loop on the pair (currentSegment, segments)
LoopBody(st, word, minDur) ==
    IF IsNumberWord(word)
    THEN [cur |-> NewSegment(word), segs |-> PushIfValid(st.segs, st.cur, minDur)]
    ELSE IF st.cur = Null
         THEN st
         ELSE IF WithinWindow(st.cur, word)
              THEN [cur |-> Absorb(st.cur, word), segs |-> st.segs]
              ELSE [cur |-> Null, segs |-> PushIfValid(st.segs, st.cur, minDur)]

RECURSIVE LoopFrom(_, _, _, _)
LoopFrom(st, ws, k, minDur) ==
    IF k > Len(ws) THEN st ELSE LoopFrom(LoopBody(st, ws[k], minDur), ws, k + 1, minDur)

\* the whole function: the loop, then the push of the last segment
FindSegmentsByNumberPattern(chunks, minDur) ==
    LET st == LoopFrom([cur |-> Null, segs |-> <<>>], chunks, 1, minDur)
    IN PushIfValid(st.segs, st.cur, minDur)

----------------------------------------------------------------------------
(* The detector run one loop iteration at a time *)

\* the segment opened at a number word written into the object currentSegment
\* already refers to
ReusedObject == FALSE

\* currentSegment = { ... }: the object literal makes a new object
FreshObject == TRUE

\* segments as its references show it: while currentSegment refers to the
\* object pushed last (shared), that element is what currentSegment is
SeenThroughReferences(segs, cur, shared) ==
    IF shared /\ cur # Null /\ segs # <<>>
    THEN [segs EXCEPT ![Len(segs)] = cur]
    ELSE segs

\* the isEnglishNumber branch
ReadNumberWord ==
    /\ dpc = "loop" /\ i <= Len(words)
    /\ IsNumberWord(words[i])
    /\ LET st == LoopBody([cur |-> currentSegment, segs |-> foundSegments],
                          words[i], settings.minSegmentDuration)
           shared == /\ Len(st.segs) > Len(foundSegments) \/ openPushed
                     /\ ~FreshObject
       IN /\ currentSegment' = st.cur
          /\ foundSegments' = SeenThroughReferences(st.segs, st.cur, shared)
          /\ openPushed' = shared
    /\ i' = i + 1
    /\ UNCHANGED <<settings, words, dpc, pipeVars, extVars, downloads, selectable, returned, wavVars, dragVars>>

\* a non-number word inside the window of the open segment
AbsorbWord ==
    /\ dpc = "loop" /\ i <= Len(words)
    /\ ~IsNumberWord(words[i])
    /\ currentSegment # Null
    /\ WithinWindow(currentSegment, words[i])
    /\ LET st == LoopBody([cur |-> currentSegment, segs |-> foundSegments],
                          words[i], settings.minSegmentDuration)
       IN /\ currentSegment' = st.cur
          /\ foundSegments' = SeenThroughReferences(st.segs, st.cur, openPushed)
    /\ i' = i + 1
    /\ UNCHANGED <<settings, words, dpc, openPushed, pipeVars, extVars, downloads, selectable, returned, wavVars, dragVars>>

\* a non-number word too far from the start of the open segment
CloseOnGap ==
    /\ dpc = "loop" /\ i <= Len(words)
    /\ ~IsNumberWord(words[i])
    /\ currentSegment # Null
    /\ ~WithinWindow(currentSegment, words[i])
    /\ LET st == LoopBody([cur |-> currentSegment, segs |-> foundSegments],
                          words[i], settings.minSegmentDuration)
       IN currentSegment' = st.cur /\ foundSegments' = st.segs
    /\ openPushed' = FALSE
    /\ i' = i + 1
    /\ UNCHANGED <<settings, words, dpc, pipeVars, extVars, downloads, selectable, returned, wavVars, dragVars>>

\* a non-number word with no open segment
SkipWord ==
    /\ dpc = "loop" /\ i <= Len(words)
    /\ ~IsNumberWord(words[i])
    /\ currentSegment = Null
    /\ i' = i + 1
    /\ UNCHANGED <<settings, words, currentSegment, foundSegments, dpc, openPushed, pipeVars, extVars, downloads, selectable, returned, wavVars, dragVars>>

\* after the loop: "Don't forget the last segment", return segments
FinishDetect ==
    /\ dpc = "loop" /\ i > Len(words)
    /\ foundSegments' = PushIfValid(foundSegments, currentSegment,
                                    settings.minSegmentDuration)
    /\ dpc' = "done"
    /\ UNCHANGED <<settings, words, i, currentSegment, openPushed, pipeVars, extVars, downloads, selectable, returned, wavVars, dragVars>>

NextDetect == ReadNumberWord \/ AbsorbWord \/ CloseOnGap \/ SkipWord \/ FinishDetect

----------------------------------------------------------------------------
(* Inputs of the detector *)

\* timestamps drawn for the tokens (tenths of a second)
TimeVals == {0, 4, 26, 104}
\* texts drawn for the tokens
Texts == {<<"7">>, <<"h", "i">>, <<" ", "2", "n", "d">>}
\* values of the slider drawn for the detector
MinDurations == {20, 35}

\* tokens with start <= end
Tokens == {w \in {Word(t, s, e) : t \in Texts, s \in TimeVals, e \in TimeVals} :
               w.timestamp[1] <= w.timestamp[2]}

\* start <= end for each token, starts non-decreasing along the sequence
WellFormed(ws) ==
    /\ \A k \in 1..Len(ws) : ws[k].timestamp[1] <= ws[k].timestamp[2]
    /\ \A k \in 1..(Len(ws) - 1) : ws[k].timestamp[1] <= ws[k + 1].timestamp[1]

\* the example of the specification: "105" "hello" "world"
Example105 ==
    << Word(<<"1", "0", "5">>, 0, 4),
       Word(<<"h", "e", "l", "l", "o">>, 5, 10),
       Word(<<"w", "o", "r", "l", "d">>, 11, 26) >>

\* two markers, each too short to be kept: "7" then "8"
Example78 == << Word(<<"7">>, 0, 3), Word(<<"8">>, 4, 7) >>

\* a first segment that lasts exactly 2.0 s when the next marker is read
ExampleBoundary == << Word(<<"7">>, 0, 20), Word(<<"8">>, 20, 40) >>

\* the token sequences of at most MaxWords tokens, and the examples
WordSeqs ==
    UNION {[1..n -> Tokens] : n \in 0..MaxWords}
        \cup {Example105, Example78, ExampleBoundary}

InitDetect ==
    /\ DragAtRest
    /\ settings \in {[minSegmentDuration |-> m] : m \in MinDurations}
    /\ words \in WordSeqs
    /\ WellFormed(words)
    /\ i = 1
    /\ currentSegment = Null
    /\ foundSegments = <<>>
    /\ dpc = "loop"
    /\ openPushed = FALSE
    /\ returned = <<>>
    /\ PipelineAtRest
    /\ ExtractorAtRest
    /\ DownloaderAtRest

SpecDetect == InitDetect /\ [][NextDetect]_vars

\* texts drawn for the marker pattern: every string over Alphabet
Alphabet == {"0", "2", "7", "n", "d", " "}
AllTexts == UNION {[1..n -> Alphabet] : n \in 0..MaxTextLen}
\* what follows the token under test: nothing, a word inside the window,
\* a word past the window, or a number word
Followers ==
    {<<>>, <<Word(<<"h", "i">>, 5, 26)>>, <<Word(<<"h", "i">>, 104, 104)>>,
     <<Word(<<" ", "0", "0", "7">>, 5, 26)>>}

InitMarker ==
    /\ DragAtRest
    /\ settings = [minSegmentDuration |-> DefaultMinSegmentDuration]
    /\ words \in {<<Word(t, 0, 4)>> \o f : t \in AllTexts, f \in Followers}
    /\ i = 1
    /\ currentSegment = Null
    /\ foundSegments = <<>>
    /\ dpc = "loop"
    /\ openPushed = FALSE
    /\ returned = <<>>
    /\ PipelineAtRest
    /\ ExtractorAtRest
    /\ DownloaderAtRest

SpecMarker == InitMarker /\ [][NextDetect]_vars

----------------------------------------------------------------------------
(* Properties of the detector *)

Duration(seg) == seg.endTime - seg.startTime

\* C1: every descriptor the detector has emitted lasts at least
\* minSegmentDuration, at every point of the run and in the returned list.
C1_MinDuration ==
    \A k \in 1..Len(foundSegments) :
        Duration(foundSegments[k]) >= settings.minSegmentDuration

NumberWords(ws) == {k \in 1..Len(ws) : IsNumberWord(ws[k])}

\* a finished run that emitted a descriptor and dropped a shorter candidate
C1_Witness ==
    /\ dpc = "done"
    /\ Len(foundSegments) >= 1
    /\ Cardinality(NumberWords(words)) > Len(foundSegments)

\* consecutive descriptors do not overlap
NoOverlap(segs) ==
    \A k \in 1..(Len(segs) - 1) : segs[k].endTime <= segs[k + 1].startTime

\* C2 as stated: for every well-formed token sequence consecutive
\* descriptors satisfy descriptor[k].end <= descriptor[k+1].start.
C2_Original == NoOverlap(foundSegments)

\* each token ends no later than the next one starts
DisjointTokens(ws) ==
    \A k \in 1..(Len(ws) - 1) : ws[k].timestamp[2] <= ws[k + 1].timestamp[1]

\* C2 amended: when, in addition, no token ends after the next token starts,
\* consecutive descriptors do not overlap and their starts strictly increase.
C2_NoOverlap ==
    DisjointTokens(words) =>
        /\ NoOverlap(foundSegments)
        /\ \A k \in 1..(Len(foundSegments) - 1) :
               foundSegments[k].startTime < foundSegments[k + 1].startTime

\* a finished run on disjoint tokens that returned two descriptors
C2_Witness ==
    /\ dpc = "done"
    /\ DisjointTokens(words)
    /\ Len(foundSegments) >= 2

\* the text between the first and the last non-blank character
Stripped(text) ==
    LET solid == {k \in 1..Len(text) : text[k] \notin WhiteSpace}
    IN IF solid = {} THEN <<>>
       ELSE SubSeq(text, CHOOSE k \in solid : \A j \in solid : k <= j,
                         CHOOSE k \in solid : \A j \in solid : k >= j)

\* non-empty and made of decimal digits only
IsMarkerText(text) ==
    LET t == Stripped(text)
    IN Len(t) > 0 /\ \A k \in 1..Len(t) : t[k] \in Digits

\* C3: reading a token opens a new segment at that token if and only if the
\* token's trimmed text is non-empty and consists of decimal digits only.
C3_MarkerIff ==
    [][(dpc = "loop" /\ i <= Len(words) /\ i' = i + 1) =>
          (IsMarkerText(words[i].text) <=>
              (currentSegment' # Null /\ currentSegment'.words = <<words[i]>>))]_vars

\* "007" has been read and opened a segment with marker value 7
C3_Witness ==
    /\ i = 2
    /\ words[1].text = <<"0", "0", "7">>
    /\ currentSegment # Null
    /\ currentSegment.number = 7

RECURSIVE JoinTexts(_)
JoinTexts(ws) ==
    IF Len(ws) = 1 THEN Stripped(ws[1].text)
    ELSE JoinTexts(SubSeq(ws, 1, Len(ws) - 1)) \o <<" ">> \o Stripped(ws[Len(ws)].text)

\* a marker followed only by non-marker tokens inside the absorption window
MarkerThenAbsorbed(ws) ==
    /\ Len(ws) >= 1
    /\ IsMarkerText(ws[1].text)
    /\ \A k \in 2..Len(ws) :
          /\ ~IsMarkerText(ws[k].text)
          /\ ws[k].timestamp[1] - ws[1].timestamp[1] < AbsorptionWindow

\* one descriptor from the marker's start to the last token's end
OneSpanning(segs, ws) ==
    /\ Len(segs) = 1
    /\ segs[1].startTime = ws[1].timestamp[1]
    /\ segs[1].endTime = ws[Len(ws)].timestamp[2]
    /\ segs[1].text = JoinTexts(ws)
    /\ segs[1].words = ws

\* the example: one descriptor 0.0 - 2.6, marker 105, "105 hello world"
ExampleResult ==
    (dpc = "done" /\ words = Example105 /\ settings.minSegmentDuration = 20) =>
        /\ Len(foundSegments) = 1
        /\ foundSegments[1].startTime = 0
        /\ foundSegments[1].endTime = 26
        /\ foundSegments[1].number = 105
        /\ foundSegments[1].text =
               <<"1", "0", "5", " ", "h", "e", "l", "l", "o", " ",
                 "w", "o", "r", "l", "d">>

\* C4 as stated: the example holds, and every marker followed only by tokens
\* inside the absorption window yields one spanning descriptor.
C4_Original ==
    /\ ExampleResult
    /\ (dpc = "done" /\ MarkerThenAbsorbed(words)) => OneSpanning(foundSegments, words)

\* C4 amended: the example holds, and a marker followed only by tokens inside
\* the absorption window yields one spanning descriptor when last end minus
\* marker start is at least minSegmentDuration, and no descriptor otherwise.
C4_Spanning ==
    /\ ExampleResult
    /\ (dpc = "done" /\ MarkerThenAbsorbed(words)) =>
          IF words[Len(words)].timestamp[2] - words[1].timestamp[1]
                >= settings.minSegmentDuration
          THEN OneSpanning(foundSegments, words)
          ELSE foundSegments = <<>>

\* the example has run to its end and returned its descriptor
C4_Witness ==
    /\ dpc = "done"
    /\ words = Example105
    /\ settings.minSegmentDuration = 20
    /\ Len(foundSegments) = 1

----------------------------------------------------------------------------
(* The detector called again and again *)

\* most calls of the detector in one behaviour
MaxCalls == 3

\* the list of an earlier call carried over to the next
KeptSegments(previous) == previous

\* const segments = []: every call starts from a list of its own
NewCallSegments(previous) == <<>>

\* the inputs of the repeated calls
RedetectSeqs ==
    { Example105, Example78, ExampleBoundary,
      <<Word(<<"7">>, 0, 26), Word(<<"h", "i">>, 104, 104), Word(<<"h", "i">>, 104, 104)>> }

\* the call under way has returned; the slider may be moved; the detector is
\* called again: its locals are new, nothing of the call before is read
CallDetect ==
    /\ dpc = "done"
    /\ Len(returned) < MaxCalls - 1
    /\ returned' = Append(returned,
                          [chunks |-> words,
                           minSegmentDuration |-> settings.minSegmentDuration,
                           result |-> foundSegments])
    /\ \E chunks \in RedetectSeqs, m \in MinDurations :
          /\ words' = chunks
          /\ settings' = [minSegmentDuration |-> m]
    /\ i' = 1
    /\ currentSegment' = Null
    /\ foundSegments' = NewCallSegments(foundSegments)
    /\ dpc' = "loop"
    /\ openPushed' = FALSE
    /\ UNCHANGED <<pipeVars, extVars, downloads, selectable, wavVars, dragVars>>

NextRedetect == NextDetect \/ CallDetect

InitRedetect ==
    /\ DragAtRest
    /\ settings \in {[minSegmentDuration |-> m] : m \in MinDurations}
    /\ words \in RedetectSeqs
    /\ i = 1
    /\ currentSegment = Null
    /\ foundSegments = <<>>
    /\ dpc = "loop"
    /\ openPushed = FALSE
    /\ returned = <<>>
    /\ PipelineAtRest
    /\ ExtractorAtRest
    /\ DownloaderAtRest

SpecRedetect == InitRedetect /\ [][NextRedetect]_vars

\* the calls that have returned so far, the last one included
ReturnedCalls ==
    {returned[k] : k \in 1..Len(returned)}
        \cup (IF dpc = "done"
              THEN {[chunks |-> words,
                     minSegmentDuration |-> settings.minSegmentDuration,
                     result |-> foundSegments]}
              ELSE {})

\* C16: two calls of detect on the same token sequence with the same
\* minSegmentDuration return identical descriptor sequences, whatever calls
\* were made before or between them.
C16_Deterministic ==
    \A a \in ReturnedCalls, b \in ReturnedCalls :
        (a.chunks = b.chunks /\ a.minSegmentDuration = b.minSegmentDuration)
            => a.result = b.result

\* the same input was detected twice, with a call on another input that
\* returned descriptors between the two
C16_Witness ==
    /\ dpc = "done"
    /\ Len(returned) = 2
    /\ returned[1].chunks = words
    /\ returned[1].minSegmentDuration = settings.minSegmentDuration
    /\ returned[2].chunks # words
    /\ returned[2].result # <<>>
    /\ foundSegments # <<>>

----------------------------------------------------------------------------
(* The step of the detector at a number word *)

\* the value of a string of digits, by the place of each digit
RECURSIVE PlaceValue(_)
PlaceValue(digits) ==
    IF digits = <<>> THEN 0
    ELSE DigitValue(digits[Len(digits)])
            + 10 * PlaceValue(SubSeq(digits, 1, Len(digits) - 1))

\* the detector is about to read a marker token
AtMarker == dpc = "loop" /\ i <= Len(words) /\ IsMarkerText(words[i].text)

\* C19: when a marker token is read while a segment is open, the open segment
\* is appended to the output if and only if its end - start is at least
\* minSegmentDuration; otherwise the output is unchanged.  Tokens
\* ("7", 0.0, 0.3), ("8", 0.4, 0.7) give zero descriptors.
C19_CloseOrDiscard ==
    /\ [][(AtMarker /\ currentSegment # Null /\ i' = i + 1) =>
             foundSegments' =
                 IF currentSegment.endTime - currentSegment.startTime
                       >= settings.minSegmentDuration
                 THEN Append(foundSegments, currentSegment)
                 ELSE foundSegments]_vars
    /\ []((dpc = "done" /\ words = Example78) => foundSegments = <<>>)

\* a marker has been read while a segment of exactly the minimum duration was
\* open, and that segment was appended
C19_Witness ==
    /\ words = ExampleBoundary
    /\ settings.minSegmentDuration = 20
    /\ i = 3
    /\ Len(foundSegments) = 1
    /\ foundSegments[1].endTime - foundSegments[1].startTime = 20

\* C20: after a marker token m is read, a segment being open before or not,
\* the open segment has start = m.start, end = m.end, marker value = the
\* unsigned integer value of m.text ("007" gives 7), text = m.text trimmed.
C20_OpenedSegment ==
    [][(AtMarker /\ i' = i + 1) =>
          /\ currentSegment' # Null
          /\ currentSegment'.startTime = words[i].timestamp[1]
          /\ currentSegment'.endTime = words[i].timestamp[2]
          /\ currentSegment'.number = PlaceValue(Stripped(words[i].text))
          /\ currentSegment'.text = Stripped(words[i].text)]_vars

\* " 007" has been read while the segment of an earlier marker was open
C20_Witness ==
    /\ i = 3
    /\ IsMarkerText(words[1].text)
    /\ words[2].text = <<" ", "0", "0", "7">>
    /\ currentSegment # Null
    /\ currentSegment.number = 7
    /\ currentSegment.startTime = 5

----------------------------------------------------------------------------
(* The steps of the detector at a non-number word and at the end *)

\* the detector is about to read a token that is no marker
AtOther == dpc = "loop" /\ i <= Len(words) /\ ~IsMarkerText(words[i].text)

\* C21: a non-marker token w read while a segment is open and
\* w.start - segment.start < 10.0 sets the end of the open segment to w.end
\* and appends the text of w (a token's text is its trimmed text) after a
\* single space; start, marker value and output list are unchanged.
C21_Absorbed ==
    [][(AtOther /\ currentSegment # Null /\ i' = i + 1
          /\ words[i].timestamp[1] - currentSegment.startTime < 100) =>
          /\ currentSegment' # Null
          /\ currentSegment'.endTime = words[i].timestamp[2]
          /\ currentSegment'.text =
                 currentSegment.text \o <<" ">> \o Stripped(words[i].text)
          /\ currentSegment'.startTime = currentSegment.startTime
          /\ currentSegment'.number = currentSegment.number
          /\ foundSegments' = foundSegments]_vars

\* " 2nd" has been absorbed into the segment of "7"
C21_Witness ==
    /\ i = 3
    /\ words[1].text = <<"7">>
    /\ words[2].text = <<" ", "2", "n", "d">>
    /\ currentSegment # Null
    /\ currentSegment.text = <<"7", " ", "2", "n", "d">>

\* C22: a non-marker token w read while a segment is open and
\* w.start - segment.start >= 10.0 emits the open segment iff its duration
\* is at least minSegmentDuration and leaves no segment open; w is in no
\* segment, and no segment is opened again before a marker is read.
C22_GapCloses ==
    /\ [][(AtOther /\ currentSegment # Null /\ i' = i + 1
             /\ words[i].timestamp[1] - currentSegment.startTime >= 100) =>
             /\ currentSegment' = Null
             /\ foundSegments' =
                   IF currentSegment.endTime - currentSegment.startTime
                         >= settings.minSegmentDuration
                   THEN Append(foundSegments, currentSegment)
                   ELSE foundSegments]_vars
    /\ [][(currentSegment = Null /\ currentSegment' # Null) =>
             (AtMarker /\ currentSegment'.words = <<words[i]>>)]_vars

\* a word that starts exactly 10.0 s after its segment has closed the segment,
\* which was emitted, and the word after it was read with no segment open
C22_Witness ==
    /\ Len(words) = 3
    /\ i = 4
    /\ IsMarkerText(words[1].text)
    /\ words[1].timestamp = <<4, 26>>
    /\ ~IsMarkerText(words[2].text)
    /\ words[2].timestamp[1] = 104
    /\ ~IsMarkerText(words[3].text)
    /\ currentSegment = Null
    /\ Len(foundSegments) = 1

\* C23: a non-marker token read while no segment is open changes nothing (no
\* segment open after it, output list unchanged); a token sequence without
\* any marker yields an empty descriptor list.
C23_Ignored ==
    /\ [][(AtOther /\ currentSegment = Null /\ i' = i + 1) =>
             (currentSegment' = Null /\ foundSegments' = foundSegments)]_vars
    /\ []((dpc = "done" /\ \A k \in 1..Len(words) : ~IsMarkerText(words[k].text))
             => foundSegments = <<>>)

\* a sequence of MaxWords tokens without any marker has been read to its end
C23_Witness ==
    /\ dpc = "done"
    /\ Len(words) = MaxWords
    /\ \A k \in 1..Len(words) : ~IsMarkerText(words[k].text)
    /\ words[1].text # words[2].text

\* the markers among the tokens read so far
MarkersRead == {k \in 1..(i - 1) : IsMarkerText(words[k].text)}

\* C24: at the end of the token stream a still-open segment is appended iff
\* its end - start >= minSegmentDuration, and it is appended at most once: a
\* segment closed by a marker or by the gap is not emitted again, so there are
\* never more descriptors than markers read.
C24_EndOfStream ==
    /\ [][(dpc = "loop" /\ dpc' = "done") =>
             foundSegments' =
                 IF currentSegment # Null
                      /\ currentSegment.endTime - currentSegment.startTime
                            >= settings.minSegmentDuration
                 THEN Append(foundSegments, currentSegment)
                 ELSE foundSegments]_vars
    /\ [](Len(foundSegments)
             + (IF dpc = "loop" /\ currentSegment # Null THEN 1 ELSE 0)
                <= Cardinality(MarkersRead))

\* the stream ended with a segment open that was long enough, after one
\* segment had been closed by a marker
C24_Witness ==
    /\ dpc = "done"
    /\ Len(words) = 3
    /\ Cardinality(MarkersRead) = 2
    /\ Len(foundSegments) = 2
    /\ foundSegments[2].words = <<words[2], words[3]>>

----------------------------------------------------------------------------
(* The words of the descriptors in the output of the detector *)

\* the descriptors' words are runs of consecutive tokens of ws that follow
\* one another without sharing a token: the k-th starts at token pos[k]
TokenRuns(segs, ws) ==
    \E pos \in [1..Len(segs) -> 1..Len(ws)] :
        /\ \A k \in 1..Len(segs) :
               /\ pos[k] + Len(segs[k].words) - 1 <= Len(ws)
               /\ segs[k].words = SubSeq(ws, pos[k], pos[k] + Len(segs[k].words) - 1)
        /\ \A k \in 1..(Len(segs) - 1) :
               pos[k] + Len(segs[k].words) <= pos[k + 1]

\* C31: in the output of the detector every descriptor's first word is a
\* marker token and none of its other words is a marker; every input token
\* belongs to at most one emitted descriptor (the descriptors hold disjoint
\* runs of consecutive tokens, in input order); and there are at most as many
\* descriptors as marker tokens in the input.
C31_MarkerLed ==
    /\ \A k \in 1..Len(foundSegments) :
           LET ws == foundSegments[k].words
           IN /\ Len(ws) >= 1
              /\ IsMarkerText(ws[1].text)
              /\ \A j \in 2..Len(ws) : ~IsMarkerText(ws[j].text)
    /\ TokenRuns(foundSegments, words)
    /\ Len(foundSegments)
          <= Cardinality({k \in 1..Len(words) : IsMarkerText(words[k].text)})

\* the detector has returned two descriptors, the first of them holding a
\* marker and the word after it
C31_Witness ==
    /\ dpc = "done"
    /\ Len(foundSegments) = 2
    /\ Len(foundSegments[1].words) = 2
    /\ Len(foundSegments[2].words) = 1

----------------------------------------------------------------------------
(* AudioBuffer and extractSegmentsFromTimestamps *)

(***************************************************************************)
(* An AudioBuffer is [numberOfChannels, length, sampleRate, data].  The    *)
(* samples are not enumerated: data = [of, from, count] says that sample k *)
(* of every channel (0 <= k < count) is sample from + k of the same        *)
(* channel of the audio named `of`, and that the samples from count to     *)
(* length - 1 are the zeros createBuffer filled the buffer with.           *)
(* Products of a time and a sample rate are exact (no rounding of the      *)
(* double multiplication).                                                 *)
(***************************************************************************)
WholeBuffer(name, channels, length, rate) ==
    [numberOfChannels |-> channels, length |-> length, sampleRate |-> rate,
     data |-> [of |-> name, from |-> 0, count |-> length]]

Max(a, b) == IF a >= b THEN a ELSE b
Min(a, b) == IF a <= b THEN a ELSE b

\* Math.floor(time * sampleRate) for a time in tenths of a second
SampleIndex(time, sampleRate) == (time * sampleRate) \div 10

\* the length taken from the duration: floor((endTime - startTime) * rate)
SegmentLengthOfDuration(seg, sampleRate) ==
    SampleIndex(seg.endTime - seg.startTime, sampleRate)

\* segmentLength = endSample - startSample
SegmentLength(seg, sampleRate) ==
    SampleIndex(seg.endTime, sampleRate) - SampleIndex(seg.startTime, sampleRate)

\* the buffer cut down to the samples the source has, instead of padded
SegmentBufferTruncated(buf, seg) ==
    LET startSample == SampleIndex(seg.startTime, buf.sampleRate)
        segmentLength == Min(SegmentLength(seg, buf.sampleRate),
                             Max(1, buf.length - startSample))
    IN IF segmentLength < 1 THEN Null
       ELSE [numberOfChannels |-> buf.numberOfChannels,
             length |-> segmentLength,
             sampleRate |-> buf.sampleRate,
             data |-> [of |-> buf.data.of,
                       from |-> buf.data.from + startSample,
                       count |-> Max(0, Min(segmentLength,
                                            buf.data.count - startSample))]]

\* audioContext.createBuffer(channels, length, rate) and the copy loops:
\* Null when createBuffer throws (a length below 1)
SegmentBuffer(buf, seg) ==
    LET startSample == SampleIndex(seg.startTime, buf.sampleRate)
        segmentLength == SegmentLength(seg, buf.sampleRate)
    IN IF segmentLength < 1 THEN Null
       ELSE [numberOfChannels |-> buf.numberOfChannels,
             length |-> segmentLength,
             sampleRate |-> buf.sampleRate,
             data |-> [of |-> buf.data.of,
                       from |-> buf.data.from + startSample,
                       count |-> Max(0, Min(segmentLength,
                                            buf.data.count - startSample))]]

\* the object pushed with the loop index i as its id instead of i + 1
AudioSegmentZeroBased(buf, seg, k) ==
    [id |-> k - 1,
     startTime |-> seg.startTime,
     endTime |-> seg.endTime,
     duration |-> seg.endTime - seg.startTime,
     text |-> seg.text,
     buffer |-> SegmentBuffer(buf, seg),
     words |-> seg.words]

\* the object pushed to audioSegments for the k-th segment
AudioSegment(buf, seg, k) ==
    [id |-> k,
     startTime |-> seg.startTime,
     endTime |-> seg.endTime,
     duration |-> seg.endTime - seg.startTime,
     text |-> seg.text,
     buffer |-> SegmentBuffer(buf, seg),
     words |-> seg.words]

RECURSIVE ExtractFrom(_, _, _, _)
ExtractFrom(buf, segs, k, acc) ==
    IF k > Len(segs) THEN [threw |-> FALSE, value |-> acc]
    ELSE IF SegmentBuffer(buf, segs[k]) = Null THEN [threw |-> TRUE]
         ELSE ExtractFrom(buf, segs, k + 1, Append(acc, AudioSegment(buf, segs[k], k)))

\* the whole function: it returns the list of audio segments or throws
ExtractSegmentsFromTimestamps(buf, segs) == ExtractFrom(buf, segs, 1, <<>>)

----------------------------------------------------------------------------
(* The extractor run one loop iteration at a time *)

\* one iteration of the for loop over segments
ExtractIteration ==
    /\ xpc = "loop" /\ xi <= Len(extInput)
    /\ SegmentBuffer(audioBuffer, extInput[xi]) # Null
    /\ audioSegments' = Append(audioSegments,
                               AudioSegment(audioBuffer, extInput[xi], xi))
    /\ xi' = xi + 1
    /\ UNCHANGED <<settings, detVars, pipeVars, downloads, selectable, returned, wavVars, dragVars, extInput, xpc>>

\* createBuffer throws in an iteration
ExtractThrows ==
    /\ xpc = "loop" /\ xi <= Len(extInput)
    /\ SegmentBuffer(audioBuffer, extInput[xi]) = Null
    /\ xpc' = "threw"
    /\ UNCHANGED <<settings, detVars, pipeVars, downloads, selectable, returned, wavVars, dragVars, extInput, audioSegments, xi>>

\* return audioSegments
ExtractReturn ==
    /\ xpc = "loop" /\ xi > Len(extInput)
    /\ xpc' = "done"
    /\ UNCHANGED <<settings, detVars, pipeVars, downloads, selectable, returned, wavVars, dragVars, extInput, audioSegments, xi>>

NextExtract == ExtractIteration \/ ExtractThrows \/ ExtractReturn

\* longest descriptor list drawn for the extractor
MaxDescriptors == 2
\* sample rates, channel counts and lengths (in frames) drawn for the source
SampleRates == {8000, 11025, 16000, 44100}
ChannelCounts == {1, 2}
SourceLengths == {12000, 48000}
\* descriptor times drawn for the extractor (tenths of a second)
DescriptorTimes == {0, 5, 11, 26}

\* descriptors of every pair of times, those with endTime <= startTime
\* included; the text and the number differ with the start
Descriptors ==
    {[startTime |-> a, endTime |-> b, words |-> <<>>,
      text |-> IF a = 0 THEN <<"7">> ELSE <<"8", " ", "h", "i">>,
      number |-> IF a = 0 THEN 7 ELSE 8]
        : a \in DescriptorTimes, b \in DescriptorTimes}

InitExtract ==
    /\ DragAtRest
    /\ settings = [minSegmentDuration |-> DefaultMinSegmentDuration]
    /\ DetectorAtRest
    /\ audioContext = [state |-> "running"]
    /\ audioFile = Null
    /\ audioBuffer \in {WholeBuffer("source", c, l, r) :
                           c \in ChannelCounts, l \in SourceLengths, r \in SampleRates}
    /\ segments = <<>>
    /\ whisperPipeline = Null
    /\ loader = "loading"
    /\ isProcessing = FALSE
    /\ transcriptionInProgress = FALSE
    /\ transcriptionDepth = 0
    /\ status = [type |-> "info", msg |-> "Ready to process", n |-> 0]
    /\ displayed = <<>>
    /\ convs = <<>>
    /\ run = [pc |-> "idle"]
    /\ reportOf = [failed |-> Null, zero |-> Null]
    /\ extInput \in UNION {[1..n -> Descriptors] : n \in 0..MaxDescriptors}
    /\ audioSegments = <<>>
    /\ xi = 1
    /\ xpc = "loop"
    /\ DownloaderAtRest

SpecExtract == InitExtract /\ [][NextExtract]_vars

\* C10: every extracted buffer has per-channel length exactly
\* floor(end * rate) - floor(start * rate), rate being the sample rate of the
\* signal the extractor reads.
C10_BufferLength ==
    \A k \in 1..Len(audioSegments) :
        audioSegments[k].buffer.length =
            ((audioSegments[k].endTime * audioBuffer.sampleRate) \div 10)
          - ((audioSegments[k].startTime * audioBuffer.sampleRate) \div 10)

\* a returned buffer whose length differs from floor((end - start) * rate)
C10_Witness ==
    /\ xpc = "done"
    /\ \E k \in 1..Len(audioSegments) :
          audioSegments[k].buffer.length #
             (((audioSegments[k].endTime - audioSegments[k].startTime)
                  * audioBuffer.sampleRate) \div 10)

\* C11: extract returns exactly one segment per input descriptor, in
\* descriptor order; the k-th segment carries id k (1-based) and the start
\* time, end time and text of the k-th descriptor.  The call fails only on an
\* input that is no descriptor (end <= start).
C11_OnePerDescriptor ==
    /\ Len(audioSegments) <= Len(extInput)
    /\ \A k \in 1..Len(audioSegments) :
          /\ audioSegments[k].id = k
          /\ audioSegments[k].startTime = extInput[k].startTime
          /\ audioSegments[k].endTime = extInput[k].endTime
          /\ audioSegments[k].text = extInput[k].text
          /\ audioSegments[k].buffer # Null
    /\ xpc = "done" => Len(audioSegments) = Len(extInput)
    /\ xpc = "threw" => extInput[xi].endTime <= extInput[xi].startTime

\* extract has returned for two descriptors that differ in times and text
C11_Witness ==
    /\ xpc = "done"
    /\ Len(extInput) = 2
    /\ Len(audioSegments) = 2
    /\ extInput[1].text # extInput[2].text
    /\ extInput[1].endTime # extInput[2].endTime

\* C17: a descriptor whose sample range runs past the end of the source still
\* gets a buffer of the full computed length: the samples inside the source
\* are copied, every sample past its end is zero; no error is raised for it
\* and it is not skipped.
C17_ZeroPadded ==
    /\ \A k \in 1..Len(audioSegments) :
          LET startSample == (extInput[k].startTime * audioBuffer.sampleRate) \div 10
              endSample == (extInput[k].endTime * audioBuffer.sampleRate) \div 10
              buffer == audioSegments[k].buffer
          IN endSample > audioBuffer.length =>
                /\ buffer.length = endSample - startSample
                /\ buffer.data.of = audioBuffer.data.of
                /\ buffer.data.from = startSample
                /\ buffer.data.count = IF startSample >= audioBuffer.length THEN 0
                                       ELSE audioBuffer.length - startSample
    /\ xpc = "done" => Len(audioSegments) = Len(extInput)
    /\ xpc = "threw" =>
          (extInput[xi].endTime * audioBuffer.sampleRate) \div 10
              <= (extInput[xi].startTime * audioBuffer.sampleRate) \div 10

\* extract has returned a buffer that is partly past the end of the source
\* and one that is wholly past it
C17_Witness ==
    /\ xpc = "done"
    /\ Len(audioSegments) = 2
    /\ audioSegments[1].buffer.data.count > 0
    /\ audioSegments[1].buffer.data.count < audioSegments[1].buffer.length
    /\ audioSegments[2].buffer.data.count = 0

----------------------------------------------------------------------------
(* processAudio's two middle steps: the detector, then the extractor on the
   list the detector returned *)

\* this.segments = await this.extractSegmentsFromTimestamps(segments): the
\* extractor is handed the array findSegmentsByNumberPattern returned
ExtractDetected ==
    /\ dpc = "done" /\ xpc = "idle"
    /\ extInput' = foundSegments
    /\ audioSegments' = <<>>
    /\ xi' = 1
    /\ xpc' = "loop"
    /\ UNCHANGED <<settings, detVars, pipeVars, downloads, selectable, returned, wavVars, dragVars>>

NextCut ==
    \/ NextDetect
    \/ ExtractDetected
    \/ ExtractIteration
    \/ ExtractReturn

\* the decoded audio the detected segments are cut from
CutBuffers == {WholeBuffer("source", 1, 48000, 16000)}

InitCut ==
    /\ DragAtRest
    /\ settings = [minSegmentDuration |-> DefaultMinSegmentDuration]
    /\ words \in WordSeqs
    /\ WellFormed(words)
    /\ i = 1
    /\ currentSegment = Null
    /\ foundSegments = <<>>
    /\ dpc = "loop"
    /\ openPushed = FALSE
    /\ returned = <<>>
    /\ audioContext = [state |-> "running"]
    /\ audioFile = Null
    /\ audioBuffer \in CutBuffers
    /\ segments = <<>>
    /\ whisperPipeline = Null
    /\ loader = "loading"
    /\ isProcessing = FALSE
    /\ transcriptionInProgress = FALSE
    /\ transcriptionDepth = 0
    /\ status = [type |-> "info", msg |-> "Ready to process", n |-> 0]
    /\ displayed = <<>>
    /\ convs = <<>>
    /\ run = [pc |-> "idle"]
    /\ reportOf = [failed |-> Null, zero |-> Null]
    /\ ExtractorAtRest
    /\ DownloaderAtRest

SpecCut == InitCut /\ [][NextCut]_vars

\* C26: a segment descriptor is never mutated after it has been emitted: a
\* step of the detector leaves every descriptor already in its output as it
\* was (the output only grows at its end), the extractor is handed that very
\* output, and no step of the extraction changes a descriptor of it
C26_NeverMutated ==
    [][/\ Len(foundSegments') >= Len(foundSegments)
       /\ \A k \in 1..Len(foundSegments) : foundSegments'[k] = foundSegments[k]
       /\ (xpc = "idle" /\ xpc' # "idle") => extInput' = foundSegments
       /\ xpc # "idle" => extInput' = extInput /\ foundSegments' = foundSegments]_vars

\* two descriptors were emitted, the first of them before the second had
\* absorbed its last word, and the extraction of both has returned
C26_Witness ==
    /\ xpc = "done"
    /\ Len(foundSegments) = 2
    /\ Len(foundSegments[2].words) > 1
    /\ extInput = foundSegments
    /\ Len(audioSegments) = 2

----------------------------------------------------------------------------
(* The lengths the extractor computes for the descriptors of the detector *)

\* timestamps drawn for the tokens (tenths of a second): 0.9 s to 1.9 s lasts
\* exactly the least minimum the slider offers
LengthTimes == {0, 9, 19, 109}
\* values of the slider from its least value, 1.0 s, on
LengthMinDurations == {10, 15}
\* sample rates the lengths are computed at, from 1 Hz on
LengthRates == {1, 2, 3, 7, 8000, 16000, 44100}
\* sample rates of the source the segments are cut from
LengthSourceRates == {1, 16000}

LengthTokens ==
    {w \in {Word(t, s, e) : t \in {<<"7">>, <<"h", "i">>},
                            s \in LengthTimes, e \in LengthTimes} :
        w.timestamp[1] <= w.timestamp[2]}

InitLength ==
    /\ DragAtRest
    /\ settings \in {[minSegmentDuration |-> m] : m \in LengthMinDurations}
    /\ words \in UNION {[1..n -> LengthTokens] : n \in 0..MaxWords}
    /\ WellFormed(words)
    /\ i = 1
    /\ currentSegment = Null
    /\ foundSegments = <<>>
    /\ dpc = "loop"
    /\ openPushed = FALSE
    /\ returned = <<>>
    /\ audioContext = [state |-> "running"]
    /\ audioFile = Null
    /\ audioBuffer \in {WholeBuffer("source", 1, 48000, r) : r \in LengthSourceRates}
    /\ segments = <<>>
    /\ whisperPipeline = Null
    /\ loader = "loading"
    /\ isProcessing = FALSE
    /\ transcriptionInProgress = FALSE
    /\ transcriptionDepth = 0
    /\ status = [type |-> "info", msg |-> "Ready to process", n |-> 0]
    /\ displayed = <<>>
    /\ convs = <<>>
    /\ run = [pc |-> "idle"]
    /\ reportOf = [failed |-> Null, zero |-> Null]
    /\ ExtractorAtRest
    /\ DownloaderAtRest

SpecLength == InitLength /\ [][NextCut]_vars

\* C32: for every descriptor the detector emits from well-formed tokens with
\* minSegmentDuration >= 1.0 s, and every sample rate of the source from 1 Hz
\* on, the length the extractor computes, floor(end * rate) -
\* floor(start * rate), is at least 1: createBuffer is never asked for an
\* empty or negative length, and every buffer cut has at least one frame.
C32_LengthAtLeastOne ==
    /\ \A k \in 1..Len(foundSegments), r \in LengthRates :
           SegmentLength(foundSegments[k], r) >= 1
    /\ (xpc = "loop" /\ xi <= Len(extInput)) =>
           SegmentBuffer(audioBuffer, extInput[xi]) # Null
    /\ \A k \in 1..Len(audioSegments) : audioSegments[k].buffer.length >= 1

\* at 1 Hz a descriptor from 0.9 s to 1.9 s, exactly the minimum of 1.0 s,
\* has been cut to a buffer of one frame
C32_Witness ==
    /\ xpc = "done"
    /\ settings.minSegmentDuration = 10
    /\ audioBuffer.sampleRate = 1
    /\ \E k \in 1..Len(audioSegments) :
          /\ audioSegments[k].startTime = 9
          /\ audioSegments[k].endTime = 19
          /\ audioSegments[k].buffer.length = 1

----------------------------------------------------------------------------
(* bufferToWav and downloadSegment *)

\* most files downloaded in one behaviour
MaxDownloads == 2

\* the size of the WAV header bufferToWav writes
WavHeaderSize == 44

(***************************************************************************)
(* The DataView over the header: the byte at offset k is view[k + 1].  The *)
(* sample payload is not enumerated (the samples are symbolic): the blob   *)
(* records how many 16-bit samples the loop wrote after the header, and of *)
(* which channel.                                                          *)
(***************************************************************************)
SetUint8(view, offset, value) == [view EXCEPT ![offset + 1] = value % 256]

\* view.setUint16(offset, value, true)
SetUint16(view, offset, value) ==
    [view EXCEPT ![offset + 1] = value % 256,
                 ![offset + 2] = (value \div 256) % 256]

\* the four bytes written most significant first (littleEndian = false)
SetUint32BigEndian(view, offset, value) ==
    [view EXCEPT ![offset + 4] = value % 256,
                 ![offset + 3] = (value \div 256) % 256,
                 ![offset + 2] = (value \div 65536) % 256,
                 ![offset + 1] = (value \div 16777216) % 256]

\* view.setUint32(offset, value, true)
SetUint32(view, offset, value) ==
    [view EXCEPT ![offset + 1] = value % 256,
                 ![offset + 2] = (value \div 256) % 256,
                 ![offset + 3] = (value \div 65536) % 256,
                 ![offset + 4] = (value \div 16777216) % 256]

\* string.charCodeAt(i) for the characters of the four chunk tags
CharCodeAt(c) ==
    CASE c = "R" -> 82  [] c = "I" -> 73  [] c = "F" -> 70  [] c = "W" -> 87
      [] c = "A" -> 65  [] c = "V" -> 86  [] c = "E" -> 69  [] c = "f" -> 102
      [] c = "m" -> 109 [] c = "t" -> 116 [] c = " " -> 32  [] c = "d" -> 100
      [] c = "a" -> 97

RECURSIVE WriteStringFrom(_, _, _, _)
WriteStringFrom(view, offset, string, k) ==
    IF k > Len(string) THEN view
    ELSE WriteStringFrom(SetUint8(view, offset + k - 1, CharCodeAt(string[k])),
                         offset, string, k + 1)

\* the local writeString(offset, string)
WriteString(view, offset, string) == WriteStringFrom(view, offset, string, 1)

\* the 44 header bytes in the order bufferToWav writes them
WavHeader(length, sampleRate) ==
    LET v0  == [k \in 1..WavHeaderSize |-> 0]
        v1  == WriteString(v0, 0, <<"R", "I", "F", "F">>)
        v2  == SetUint32(v1, 4, 36 + length * 2)
        v3  == WriteString(v2, 8, <<"W", "A", "V", "E">>)
        v4  == WriteString(v3, 12, <<"f", "m", "t", " ">>)
        v5  == SetUint32(v4, 16, 16)
        v6  == SetUint16(v5, 20, 1)
        v7  == SetUint16(v6, 22, 1)
        v8  == SetUint32(v7, 24, sampleRate)
        v9  == SetUint32(v8, 28, sampleRate * 2)
        v10 == SetUint16(v9, 32, 2)
        v11 == SetUint16(v10, 34, 16)
        v12 == WriteString(v11, 36, <<"d", "a", "t", "a">>)
    IN SetUint32(v12, 40, length * 2)

\* the Blob bufferToWav returns
BufferToWav(buffer) ==
    [size    |-> WavHeaderSize + buffer.length * 2,
     header  |-> WavHeader(buffer.length, buffer.sampleRate),
     payload |-> [of |-> buffer.data, channel |-> 0, samples |-> buffer.length],
     type    |-> "audio/wav"]

\* Number.prototype.toString for a non-negative integer
RECURSIVE NumberToString(_)
NumberToString(n) ==
    LET d == <<"0", "1", "2", "3", "4", "5", "6", "7", "8", "9">>[(n % 10) + 1]
    IN IF n < 10 THEN <<d>> ELSE NumberToString(n \div 10) \o <<d>>

\* String.prototype.padStart with a one-character pad
RECURSIVE PadStart(_, _, _)
PadStart(s, targetLength, pad) ==
    IF Len(s) >= targetLength THEN s ELSE PadStart(<<pad>> \o s, targetLength, pad)

\* the number spoken at the head of a segment: that of its first word
MarkerNumber(segment) == ParseInt(Trim(segment.words[1].text))

\* the file named after the number detected in the segment
DownloadNameByNumber(segment) ==
    NumberToString(MarkerNumber(segment)) \o <<".", "w", "a", "v">>

\* a.download = `segment_${segment.id.toString().padStart(3, "0")}.wav`
DownloadName(segment) ==
    <<"s", "e", "g", "m", "e", "n", "t", "_">>
        \o PadStart(NumberToString(segment.id), 3, "0")
        \o <<".", "w", "a", "v">>

\* downloadSegment(index) for an index that has a segment (index = k - 1);
\* bufferToWav does not throw on a buffer createBuffer returned, so the catch
\* block is not entered
DownloadSegment ==
    /\ Len(downloads) < MaxDownloads
    /\ \E k \in 1..Len(segments) :
          downloads' = Append(downloads,
                              [index    |-> k - 1,
                               download |-> DownloadName(segments[k]),
                               blob     |-> BufferToWav(segments[k].buffer)])
    /\ UNCHANGED <<settings, detVars, pipeVars, extVars, selectable, returned, wavVars, dragVars>>

\* downloadSegment(index) for an index that has no segment: if (!segment) return
DownloadMissing ==
    /\ \E index \in 0..MaxDownloads : index >= Len(segments)
    /\ UNCHANGED vars

NextDownload == DownloadSegment \/ DownloadMissing

\* the transcripts the downloadable segments come from
DownloadTranscripts ==
    { Example105,
      <<Word(<<"1", "0", "1">>, 0, 26)>>,
      <<Word(<<" ", "7">>, 0, 26), Word(<<" ", "8">>, 30, 60)>>,
      <<Word(<<"1">>, 0, 26), Word(<<"2">>, 30, 60), Word(<<"3">>, 61, 104)>> }

\* the buffers the segments are cut from
DownloadSources ==
    {WholeBuffer("source", c, l, r) :
        c \in ChannelCounts, l \in {48000, 480000}, r \in {16000, 44100}}

\* the state after a run of processAudio that found segments
InitDownload ==
    /\ DragAtRest
    /\ settings = [minSegmentDuration |-> DefaultMinSegmentDuration]
    /\ DetectorAtRest
    /\ ExtractorAtRest
    /\ DownloaderAtRest
    /\ audioContext = [state |-> "running"]
    /\ audioFile = Null
    /\ audioBuffer \in DownloadSources
    /\ \E chunks \in DownloadTranscripts :
          segments = ExtractSegmentsFromTimestamps(audioBuffer,
                         FindSegmentsByNumberPattern(chunks,
                             settings.minSegmentDuration)).value
    /\ whisperPipeline = Null
    /\ loader = "loading"
    /\ isProcessing = FALSE
    /\ transcriptionInProgress = FALSE
    /\ transcriptionDepth = 0
    /\ status = [type |-> "success", msg |-> "Finished processing", n |-> Len(segments)]
    /\ displayed = segments
    /\ convs = <<>>
    /\ run = [pc |-> "idle"]
    /\ reportOf = [failed |-> Null, zero |-> Null]

SpecDownload == InitDownload /\ [][NextDownload]_vars

\* the unsigned 32-bit little-endian number at an offset of the header
GetUint32(view, offset) ==
    view[offset + 1] + 256 * view[offset + 2] + 65536 * view[offset + 3]
        + 16777216 * view[offset + 4]

\* C12: encoding a buffer of n samples produces exactly 44 + 2n bytes, the
\* little-endian 32-bit field at offset 4 being 36 + 2n and the one at
\* offset 40 being 2n.
C12_WavSize ==
    \A j \in 1..Len(downloads) :
        LET n == segments[downloads[j].index + 1].buffer.length
            blob == downloads[j].blob
        IN /\ blob.size = 44 + 2 * n
           /\ Len(blob.header) + 2 * blob.payload.samples = blob.size
           /\ GetUint32(blob.header, 4) = 36 + 2 * n
           /\ GetUint32(blob.header, 40) = 2 * n

\* a mono buffer whose sizes need more than one byte has been encoded
C12_Witness ==
    \E j \in 1..Len(downloads) :
        LET buffer == segments[downloads[j].index + 1].buffer
        IN /\ buffer.numberOfChannels = 1
           /\ buffer.length > 32768
           /\ downloads[j].blob.header[5] # downloads[j].blob.header[6]

C14_Original ==
    \A j \in 1..Len(downloads) :
        downloads[j].download
            = NumberToString(MarkerNumber(segments[downloads[j].index + 1]))
                  \o <<".", "w", "a", "v">>

----------------------------------------------------------------------------
(* bufferToWav: the conversion of the samples *)

\* most samples of a channel converted in one behaviour
MaxSamples == 2

(***************************************************************************)
(* A sample is a number of thousandths, [nan |-> FALSE, milli |-> m] for   *)
(* m / 1000, or NaN.  A scaled sample is kept as the exact product, in     *)
(* thousandths too.                                                        *)
(***************************************************************************)
Sample(m) == [nan |-> FALSE, milli |-> m]
NaN == [nan |-> TRUE, milli |-> 0]

\* Math.max(-1, Math.min(1, channelData[i])): NaN stays NaN
ClampSample(x) == IF x.nan THEN x ELSE Sample(Max(-1000, Min(1000, x.milli)))

\* both signs scaled by 0x8000
ScaleSampleSymmetric(x) == IF x.nan THEN x ELSE Sample(x.milli * 32768)

\* sample < 0 ? sample * 0x8000 : sample * 0x7fff (NaN < 0 is false)
ScaleSample(x) ==
    IF x.nan THEN x
    ELSE IF x.milli < 0 THEN Sample(x.milli * 32768) ELSE Sample(x.milli * 32767)

\* ToInt16 of DataView.setInt16: NaN gives 0, a number is truncated towards
\* zero and taken modulo 2^16
ToInt16Bits(x) ==
    IF x.nan THEN 0
    ELSE LET t == IF x.milli >= 0 THEN x.milli \div 1000
                  ELSE -((-x.milli) \div 1000)
         IN t % 65536

\* view.setInt16(offset, value, true) at the end of the bytes written
SetInt16(bytes, value) ==
    LET bits == ToInt16Bits(value)
    IN bytes \o <<bits % 256, bits \div 256>>

\* one iteration of the loop over the samples; offset = 44 + Len(wavBytes)
EncodeSample ==
    /\ Len(wavBytes) < 2 * Len(wavInput)
    /\ LET sample == ClampSample(wavInput[(Len(wavBytes) \div 2) + 1])
       IN wavBytes' = SetInt16(wavBytes, ScaleSample(sample))
    /\ UNCHANGED <<settings, detVars, pipeVars, extVars, dragVars, downloads, selectable,
                   returned, wavInput>>

NextEncode == EncodeSample

\* the samples drawn for the encoder, in thousandths, and NaN
SampleValues ==
    {Sample(m) : m \in {-1500, -1000, -999, -500, -1, 0, 1, 500, 999, 1000, 1500}}
        \cup {NaN}

InitEncode ==
    /\ DragAtRest
    /\ settings = [minSegmentDuration |-> DefaultMinSegmentDuration]
    /\ DetectorAtRest
    /\ PipelineAtRest
    /\ ExtractorAtRest
    /\ downloads = <<>>
    /\ selectable = {}
    /\ wavInput \in UNION {[1..n -> SampleValues] : n \in 0..MaxSamples}
    /\ wavBytes = <<>>

SpecEncode == InitEncode /\ [][NextEncode]_vars

\* the signed 16-bit number stored little-endian at sample k of the payload
StoredInt16(k) ==
    LET u == wavBytes[2 * k - 1] + 256 * wavBytes[2 * k]
    IN IF u >= 32768 THEN u - 65536 ELSE u

\* C25: each sample is clamped to [-1.0, 1.0], then scaled by 32768 when
\* negative and by 32767 otherwise, and stored as a little-endian signed
\* 16-bit number: every stored sample lies in [-32768, 32767], an input
\* <= -1.0 gives -32768, an input >= +1.0 gives 32767, 0 gives 0.
C25_SampleScaling ==
    \A k \in 1..(Len(wavBytes) \div 2) :
        LET x == wavInput[k]
            v == StoredInt16(k)
        IN /\ wavBytes[2 * k - 1] \in 0..255
           /\ wavBytes[2 * k] \in 0..255
           /\ v \in -32768..32767
           /\ ~x.nan =>
                /\ x.milli <= -1000 => v = -32768
                /\ x.milli >= 1000 => v = 32767
                /\ x.milli = 0 => v = 0
                /\ (x.milli > -1000 /\ x.milli < 0) =>
                       (v * 1000 >= x.milli * 32768 /\ (v - 1) * 1000 < x.milli * 32768)
                /\ (x.milli >= 0 /\ x.milli < 1000) =>
                       (v * 1000 <= x.milli * 32767 /\ (v + 1) * 1000 > x.milli * 32767)

\* a sample above +1.0 and a sample below -1.0 have been stored
C25_Witness ==
    /\ Len(wavInput) = 2
    /\ Len(wavBytes) = 4
    /\ wavInput[1] = Sample(1500)
    /\ wavInput[2] = Sample(-1500)
    /\ wavBytes = <<255, 127, 0, 128>>

----------------------------------------------------------------------------
(* The application: files, conversion, processAudio *)

\* most convertAudioTo16kMono calls awaiting a result at one time
MaxPending == 2

\* the sample rate Whisper is fed: 16 kHz
TargetRate == 16000

\* the files the user can pick; numberOfChannels, sampleRate and length are
\* those of the buffer decodeAudioData returns for the file
FileA == [name |-> "a.mp3", type |-> "audio/mpeg", ext |-> "mp3",
          numberOfChannels |-> 2, sampleRate |-> 44100, length |-> 132300]
FileB == [name |-> "b.wav", type |-> "audio/wav", ext |-> "wav",
          numberOfChannels |-> 1, sampleRate |-> 16000, length |-> 48000]
FileD == [name |-> "notes.txt", type |-> "text/plain", ext |-> "txt",
          numberOfChannels |-> 1, sampleRate |-> 16000, length |-> 16000]
FileC == [name |-> "c.ogg", type |-> "audio/ogg", ext |-> "ogg",
          numberOfChannels |-> 2, sampleRate |-> 44100, length |-> 44100]
\* files whose decoded signal has no frame
FileE == [name |-> "empty.wav", type |-> "audio/wav", ext |-> "wav",
          numberOfChannels |-> 1, sampleRate |-> 16000, length |-> 0]
FileH == [name |-> "h.mp3", type |-> "audio/mpeg", ext |-> "mp3",
          numberOfChannels |-> 2, sampleRate |-> 44100, length |-> 0]
FileF == [name |-> "f.m4a", type |-> "audio/m4a", ext |-> "m4a",
          numberOfChannels |-> 1, sampleRate |-> 11025, length |-> 11026]
FileG == [name |-> "g.wav", type |-> "audio/wav", ext |-> "wav",
          numberOfChannels |-> 2, sampleRate |-> 16000, length |-> 32000]
Files == {FileA, FileB, FileC, FileD, FileE, FileF, FileG, FileH}

FileNamed(name) == CHOOSE f \in Files : f.name = name

ValidTypes == {"audio/wav", "audio/mp3", "audio/mpeg", "audio/ogg", "audio/m4a"}
ValidExtensions == {"wav", "mp3", "ogg", "m4a"}

\* the test at the head of processFile
IsValidAudioFile(file) == file.type \in ValidTypes \/ file.ext \in ValidExtensions

\* the quotient rounded down (Math.floor) instead of up
FloorDiv(a, b) == a \div b

\* Math.ceil(a / b) for a >= 0 and b > 0
CeilDiv(a, b) == (a + b - 1) \div b

\* the buffer convertAudioTo16kMono stores for a decoded file: the decoded
\* buffer itself when it is mono 16 kHz, else a mono buffer, resampled to
\* 16 kHz when the rate differs
NormalizedBuffer(file) ==
    IF file.numberOfChannels = 1 /\ file.sampleRate = TargetRate
    THEN WholeBuffer(file.name, file.numberOfChannels, file.length, file.sampleRate)
    ELSE IF file.sampleRate # TargetRate
         THEN WholeBuffer(file.name, 1,
                          CeilDiv(file.length * TargetRate, file.sampleRate), TargetRate)
         ELSE WholeBuffer(file.name, 1, file.length, file.sampleRate)

Status(type, msg) == [type |-> type, msg |-> msg, n |-> 0]

\* values of the slider the user moves to
SliderInputs == {20, 30}

\* what the Whisper pipeline can resolve with: text and word chunks
Transcriptions ==
    { [text |-> <<" ">>, chunks |-> <<Word(<<" ">>, 0, 26)>>],
      [text |-> <<"1", "0", "5">>, chunks |-> Example105],
      [text |-> <<"7", " ", "8">>,
       chunks |-> <<Word(<<" ", "7">>, 0, 26), Word(<<" ", "8">>, 30, 60)>>],
      [text |-> <<"7">>,
       chunks |-> <<Word(<<" ", "7">>, 0, 26), [timestamp |-> <<30, 60>>]>>] }

\* word.text.trim() throws a TypeError: a chunk carries no text
DetectThrows(chunks) ==
    \E k \in 1..Len(chunks) : "text" \notin DOMAIN chunks[k]

\* result.text && result.text.trim().length > 0
HasText(result) == Len(Trim(result.text)) > 0

\* no microtask of a processAudio call is waiting to run: the event loop takes
\* the next task (a user event, the completion of an awaited operation)
TaskBoundary == run.pc # "extracted"

RemoveAt(q, k) == SubSeq(q, 1, k - 1) \o SubSeq(q, k + 1, Len(q))

\* window.transformers.pipeline(...) resolves
ModelLoaded ==
    /\ TaskBoundary
    /\ loader = "loading"
    /\ whisperPipeline' = [model |-> "Xenova/whisper-tiny"]
    /\ loader' = "loaded"
    /\ status' = Status("success", "model loaded")
    /\ UNCHANGED <<settings, detVars, extVars, downloads, selectable, returned, wavVars, dragVars, audioContext, audioFile, audioBuffer,
                   segments, isProcessing, transcriptionInProgress,
                   transcriptionDepth, displayed, convs, run, reportOf>>

\* window.transformers.pipeline(...) rejects
ModelLoadFailed ==
    /\ TaskBoundary
    /\ loader = "loading"
    /\ loader' = "failed"
    /\ status' = Status("error", "model loading failed")
    /\ UNCHANGED <<settings, detVars, extVars, downloads, selectable, returned, wavVars, dragVars, audioContext, audioFile, audioBuffer,
                   segments, whisperPipeline, isProcessing, transcriptionInProgress,
                   transcriptionDepth, displayed, convs, run, reportOf>>

\* the input event of the minSegmentDuration slider
SetMinSegmentDuration ==
    /\ TaskBoundary
    /\ \E v \in SliderInputs :
          /\ v # settings.minSegmentDuration
          /\ settings' = [settings EXCEPT !.minSegmentDuration = v]
    /\ UNCHANGED <<detVars, extVars, downloads, selectable, returned, wavVars, dragVars, pipeVars>>

\* processFile on a file that is no audio file: an error status, nothing else
FileRejected ==
    /\ TaskBoundary
    /\ \E file \in selectable :
          /\ ~IsValidAudioFile(file)
          /\ status' = Status("error", "select a valid audio file")
    /\ UNCHANGED <<settings, detVars, extVars, downloads, selectable, returned, wavVars, audioContext, audioFile, audioBuffer,
                   segments, whisperPipeline, loader, isProcessing,
                   transcriptionInProgress, transcriptionDepth, displayed, convs,
                   run, reportOf>>

\* handleFileSelect with a file that is no audio file
ProcessFileRejected == FileRejected /\ UNCHANGED dragVars

\* processFile on an audio file: the file is stored and convertAudioTo16kMono
\* runs up to its first await (readFileAsArrayBuffer of this.audioFile)
FileAccepted ==
    /\ TaskBoundary
    /\ Len(convs) < MaxPending
    /\ \E file \in selectable :
          /\ IsValidAudioFile(file)
          /\ audioFile' = file
          /\ convs' = Append(convs, [file |-> file.name, pc |-> "read"])
    /\ audioContext' = [state |-> "running"]
    /\ status' = Status("info", "file selected")
    /\ UNCHANGED <<settings, detVars, extVars, downloads, selectable, returned, wavVars, audioBuffer, segments,
                   whisperPipeline, loader, isProcessing, transcriptionInProgress,
                   transcriptionDepth, displayed, run, reportOf>>

\* handleFileSelect with an audio file
ProcessFile == FileAccepted /\ UNCHANGED dragVars

\* readFileAsArrayBuffer resolves: decodeAudioData is called and awaited
ConvFileRead ==
    /\ TaskBoundary
    /\ \E k \in 1..Len(convs) :
          /\ convs[k].pc = "read"
          /\ convs' = [convs EXCEPT ![k].pc = "decode"]
    /\ UNCHANGED <<settings, detVars, extVars, downloads, selectable, returned, wavVars, dragVars, audioContext, audioFile, audioBuffer,
                   segments, whisperPipeline, loader, isProcessing,
                   transcriptionInProgress, transcriptionDepth, status, displayed,
                   run, reportOf>>

\* decodeAudioData resolves. A buffer that is already mono 16 kHz is stored
\* as it is; any other is downmixed to mono (createBuffer throws when the
\* buffer has no frame, and the catch block reports it) and then, when its
\* rate is 16 kHz, stored, else rendered through an OfflineAudioContext,
\* whose startRendering is awaited
ConvDecoded ==
    /\ TaskBoundary
    /\ \E k \in 1..Len(convs) :
          LET file == FileNamed(convs[k].file)
          IN /\ convs[k].pc = "decode"
             /\ IF file.numberOfChannels = 1 /\ file.sampleRate = TargetRate
                THEN /\ audioBuffer' = NormalizedBuffer(file)
                     /\ convs' = RemoveAt(convs, k)
                     /\ status' = Status("success", "already mono 16kHz")
                ELSE IF file.length < 1
                THEN /\ convs' = RemoveAt(convs, k)
                     /\ status' = Status("error", "error converting audio")
                     /\ UNCHANGED audioBuffer
                ELSE IF file.sampleRate # TargetRate
                     THEN /\ convs' = [convs EXCEPT ![k].pc = "render"]
                          /\ status' = Status("info", "converting audio")
                          /\ UNCHANGED audioBuffer
                     ELSE /\ audioBuffer' = NormalizedBuffer(file)
                          /\ convs' = RemoveAt(convs, k)
                          /\ status' = Status("success", "converted to mono")
    /\ UNCHANGED <<settings, detVars, extVars, downloads, selectable, returned, wavVars, dragVars, audioContext, audioFile, segments,
                   whisperPipeline, loader, isProcessing, transcriptionInProgress,
                   transcriptionDepth, displayed, run, reportOf>>

\* startRendering resolves: the resampled buffer is stored
ConvRendered ==
    /\ TaskBoundary
    /\ \E k \in 1..Len(convs) :
          /\ convs[k].pc = "render"
          /\ audioBuffer' = NormalizedBuffer(FileNamed(convs[k].file))
          /\ convs' = RemoveAt(convs, k)
    /\ status' = Status("success", "converted to mono 16kHz")
    /\ UNCHANGED <<settings, detVars, extVars, downloads, selectable, returned, wavVars, dragVars, audioContext, audioFile, segments,
                   whisperPipeline, loader, isProcessing, transcriptionInProgress,
                   transcriptionDepth, displayed, run, reportOf>>

\* an awaited step of the conversion rejects (the file cannot be read or
\* decoded, the rendering fails): the catch block reports it
ConvFailed ==
    /\ TaskBoundary
    /\ \E k \in 1..Len(convs) : convs' = RemoveAt(convs, k)
    /\ status' = Status("error", "error converting audio")
    /\ UNCHANGED <<settings, detVars, extVars, downloads, selectable, returned, wavVars, dragVars, audioContext, audioFile, audioBuffer,
                   segments, whisperPipeline, loader, isProcessing,
                   transcriptionInProgress, transcriptionDepth, displayed, run,
                   reportOf>>

\* the conversion alone: files are selected and converted, nothing else
NextConvert ==
    \/ ProcessFileRejected \/ ProcessFile
    \/ ConvFileRead \/ ConvDecoded \/ ConvRendered \/ ConvFailed

\* the state after the constructor, with one or two files at hand
InitConvert ==
    /\ DragAtRest
    /\ settings = [minSegmentDuration |-> DefaultMinSegmentDuration]
    /\ DetectorAtRest
    /\ PipelineAtRest
    /\ ExtractorAtRest
    /\ downloads = <<>>
    /\ selectable \in {S \in SUBSET Files : Cardinality(S) \in 1..2}
    /\ wavInput = <<>>
    /\ wavBytes = <<>>

SpecConvert == InitConvert /\ [][NextConvert]_vars

\* conversions that all succeed: files are selected, read, decoded, rendered
NextRace == ProcessFile \/ ConvFileRead \/ ConvDecoded \/ ConvRendered

\* audio files whose decoded signal has frames
SoundFiles == {f \in Files : IsValidAudioFile(f) /\ f.length > 0}

\* the state after the constructor, with two audio files at hand
InitRace ==
    /\ DragAtRest
    /\ settings = [minSegmentDuration |-> DefaultMinSegmentDuration]
    /\ DetectorAtRest
    /\ PipelineAtRest
    /\ ExtractorAtRest
    /\ downloads = <<>>
    /\ selectable \in {S \in SUBSET SoundFiles : Cardinality(S) = 2}
    /\ wavInput = <<>>
    /\ wavBytes = <<>>

SpecRace == InitRace /\ [][NextRace]_vars

----------------------------------------------------------------------------
(* The drag and drop handlers of the upload area *)

\* most dragenter events counted above, and dragleave events below, zero
MaxDrag == 2

\* handleDragEnter: the counter is raised and the area is highlighted
HandleDragEnter ==
    /\ TaskBoundary
    /\ dragCounter < MaxDrag
    /\ dragCounter' = dragCounter + 1
    /\ dragOver' = TRUE
    /\ UNCHANGED <<settings, detVars, pipeVars, extVars, downloads, selectable,
                   returned, wavVars>>

\* handleDragLeave: the counter is lowered, and the highlight is removed when
\* the counter has come to 0
HandleDragLeave ==
    /\ TaskBoundary
    /\ dragCounter > -MaxDrag
    /\ dragCounter' = dragCounter - 1
    /\ dragOver' = IF dragCounter' = 0 THEN FALSE ELSE dragOver
    /\ UNCHANGED <<settings, detVars, pipeVars, extVars, downloads, selectable,
                   returned, wavVars>>

\* handleDrop: the counter is reset, the highlight is removed, and the first
\* of the dropped files, if there is one, goes to processFile
HandleDrop ==
    /\ dragCounter' = 0
    /\ dragOver' = FALSE
    /\ \/ FileAccepted
       \/ FileRejected
       \/ /\ TaskBoundary
          /\ UNCHANGED <<settings, detVars, pipeVars, extVars, downloads,
                         selectable, returned, wavVars>>

\* drags over the upload area, drops, and the conversions the drops start
NextDrag ==
    \/ HandleDragEnter \/ HandleDragLeave \/ HandleDrop
    \/ ConvFileRead \/ ConvDecoded \/ ConvRendered \/ ConvFailed

\* the state after the constructor, with one audio file and one other file
InitDrag ==
    /\ DragAtRest
    /\ settings = [minSegmentDuration |-> DefaultMinSegmentDuration]
    /\ DetectorAtRest
    /\ PipelineAtRest
    /\ ExtractorAtRest
    /\ downloads = <<>>
    /\ selectable = {FileA, FileD}
    /\ wavInput = <<>>
    /\ wavBytes = <<>>

SpecDrag == InitDrag /\ [][NextDrag]_vars

\* C34: for every sequence of dragenter, dragleave and drop events on the
\* upload area, dragCounter is never negative, and the drag-over highlight
\* is shown if and only if dragCounter > 0.
C34_Original ==
    /\ dragCounter >= 0
    /\ dragOver <=> dragCounter > 0

\* C29: once all pending conversions have finished, the stored audioBuffer
\* is the normalized audio of the most recently selected file (audioFile),
\* whatever order the conversions complete in.
C29_Original ==
    (convs = <<>> /\ audioFile # Null) =>
        audioBuffer = NormalizedBuffer(audioFile)

C18_ResampledLength ==
    audioBuffer # Null =>
        LET decoded == FileNamed(audioBuffer.data.of)
            product == decoded.length * 16000
        IN /\ decoded.sampleRate # 16000 =>
                 /\ audioBuffer.numberOfChannels = 1
                 /\ audioBuffer.sampleRate = 16000
                 /\ audioBuffer.length * decoded.sampleRate >= product
                 /\ (audioBuffer.length - 1) * decoded.sampleRate < product
           /\ decoded = FileC => audioBuffer.length = 16000

\* a signal whose length has to be rounded up (11026 frames at 11025 Hz) has
\* been resampled and stored, the file of the example being at hand too
C18_Witness ==
    /\ audioBuffer # Null
    /\ audioBuffer.data.of = FileF.name
    /\ selectable = {FileC, FileF}
    /\ status.type = "success"

\* processAudio with no file selected
ProcessAudioNoFile ==
    /\ TaskBoundary
    /\ audioFile = Null
    /\ status' = Status("error", "select an audio file first")
    /\ UNCHANGED <<settings, detVars, extVars, downloads, selectable, returned, wavVars, dragVars, audioContext, audioFile, audioBuffer,
                   segments, whisperPipeline, loader, isProcessing,
                   transcriptionInProgress, transcriptionDepth, displayed, convs,
                   run, reportOf>>

\* processAudio while a call is in flight
ProcessAudioBusy ==
    /\ TaskBoundary
    /\ audioFile # Null
    /\ isProcessing
    /\ status' = Status("warning", "processing already in progress")
    /\ UNCHANGED <<settings, detVars, extVars, downloads, selectable, returned, wavVars, dragVars, audioContext, audioFile, audioBuffer,
                   segments, whisperPipeline, loader, isProcessing,
                   transcriptionInProgress, transcriptionDepth, displayed, convs,
                   run, reportOf>>

\* processAudio before any buffer has been stored
ProcessAudioNoBuffer ==
    /\ TaskBoundary
    /\ audioFile # Null
    /\ ~isProcessing
    /\ audioBuffer = Null
    /\ status' = Status("warning", "audio is still being converted")
    /\ UNCHANGED <<settings, detVars, extVars, downloads, selectable, returned, wavVars, dragVars, audioContext, audioFile, audioBuffer,
                   segments, whisperPipeline, loader, isProcessing,
                   transcriptionInProgress, transcriptionDepth, displayed, convs,
                   run, reportOf>>

\* this.segments emptied when a run fails
StoredReset(stored) == <<>>

\* a throw inside the try of processAudio skips the assignment to
\* this.segments and the call of displayResults: what was stored stays
StoredAfterThrow(stored) == stored

\* no finally block: isProcessing is left as the try block set it
ProcessingLeftSet == TRUE

\* finally { this.isProcessing = false }: isProcessing when processAudio ends
ProcessingAfterFinally == FALSE

\* the guards of processAudio without the one on isProcessing
ProcessAudioAcceptedWhileBusy ==
    /\ TaskBoundary
    /\ audioFile # Null
    /\ audioBuffer # Null

\* the three guards of processAudio passed
ProcessAudioAccepted ==
    /\ TaskBoundary
    /\ audioFile # Null
    /\ ~isProcessing
    /\ audioBuffer # Null

\* transcribeEntireAudio reaches the call of the Whisper pipeline
TranscribeCallsPipeline ==
    /\ ~transcriptionInProgress
    /\ transcriptionDepth + 1 <= 2
    /\ whisperPipeline # Null

\* processAudio: transcribeEntireAudio throws before it calls the pipeline
\* (re-entrancy guard, depth guard, pipeline not loaded); the catch block of
\* processAudio reports the error and finally clears isProcessing
ProcessAudioTranscribeThrows ==
    /\ ProcessAudioAccepted
    /\ ~TranscribeCallsPipeline
    /\ IF transcriptionInProgress
       THEN /\ status' = Status("error", "Transcription recursion detected")
            /\ UNCHANGED <<transcriptionInProgress, transcriptionDepth>>
       ELSE /\ transcriptionInProgress' = FALSE
            /\ transcriptionDepth' = 0
            /\ status' = IF transcriptionDepth + 1 > 2
                          THEN Status("error", "Maximum transcription depth reached")
                          ELSE Status("error", "Whisper pipeline not available")
    /\ isProcessing' = ProcessingAfterFinally
    /\ segments' = StoredAfterThrow(segments)
    /\ UNCHANGED <<settings, detVars, extVars, downloads, selectable, returned, wavVars, dragVars, audioContext, audioFile, audioBuffer,
                   whisperPipeline, loader, displayed, convs, run, reportOf>>

\* processAudio up to the await of the Whisper pipeline: the samples of
\* this.audioBuffer are copied and handed to the pipeline
ProcessAudioStart ==
    /\ ProcessAudioAccepted
    /\ TranscribeCallsPipeline
    /\ isProcessing' = TRUE
    /\ transcriptionInProgress' = TRUE
    /\ transcriptionDepth' = transcriptionDepth + 1
    /\ status' = Status("info", "Transcribing audio")
    /\ run' = [pc |-> "transcribing", file |-> audioFile.name,
               converting |-> \E k \in 1..Len(convs) : convs[k].file = audioFile.name,
               transcribed |-> audioBuffer.data.of]
    /\ UNCHANGED <<settings, detVars, extVars, downloads, selectable, returned, wavVars, dragVars, audioContext, audioFile, audioBuffer,
                   segments, whisperPipeline, loader, displayed, convs, reportOf>>

\* what the caller is shown at the end of a run: the status and the cards
Report(st, stored) == [status |-> st, stored |-> stored]

\* the history of reports, updated for a run of kind cause
Reported(cause, report) ==
    IF cause \in {"failed", "zero"} THEN [reportOf EXCEPT ![cause] = report]
    ELSE reportOf

\* the depth counter left as the call of the pipeline found it
DepthLeftRaised(depth) == depth

\* this._transcriptionDepth-- before transcribeEntireAudio returns the result
\* or the empty transcription
DepthAfterReturn(depth) == depth - 1

\* the rest of transcribeEntireAudio and processAudio once the pipeline has
\* settled on outcome (Null when it threw): the transcription returned,
\* findSegmentsByNumberPattern, extractSegmentsFromTimestamps up to its await;
\* when one of the two throws, the catch block and finally
AfterTranscriber(outcome) ==
    LET kept == outcome # Null /\ HasText(outcome)
        transcription == IF kept THEN outcome ELSE [text |-> <<>>, chunks |-> <<>>]
        detectThrew == DetectThrows(transcription.chunks)
        found == IF detectThrew THEN <<>>
                 ELSE FindSegmentsByNumberPattern(transcription.chunks,
                                                  settings.minSegmentDuration)
        extracted == IF detectThrew THEN [threw |-> TRUE]
                     ELSE ExtractSegmentsFromTimestamps(audioBuffer, found)
        cause == IF ~kept THEN "failed"
                 ELSE IF detectThrew THEN "threw"
                 ELSE IF found = <<>> THEN "zero" ELSE "some"
    IN /\ transcriptionDepth' = DepthAfterReturn(transcriptionDepth)
       /\ transcriptionInProgress' = FALSE
       /\ IF extracted.threw
          THEN /\ status' = Status("error", "Error processing audio")
               /\ isProcessing' = ProcessingAfterFinally
               /\ run' = [pc |-> "idle"]
               /\ reportOf' = Reported(cause, Report(status', 0))
               /\ segments' = StoredAfterThrow(segments)
          ELSE /\ status' = Status("info", "Extracting segments")
               /\ run' = [pc |-> "extracted", file |-> run.file,
                          converting |-> run.converting,
                          transcribed |-> run.transcribed,
                          extractedFrom |-> audioBuffer.data.of,
                          cause |-> cause, result |-> extracted.value]
               /\ UNCHANGED <<isProcessing, reportOf, segments>>
       /\ UNCHANGED <<settings, detVars, extVars, downloads, selectable, returned, wavVars, dragVars, audioContext, audioFile,
                      audioBuffer, whisperPipeline, loader, displayed, convs>>

\* the Whisper pipeline rejects: the error is caught inside the loop over
\* configs and an empty transcription is returned
TranscriberThrows ==
    /\ run.pc = "transcribing"
    /\ AfterTranscriber(Null)

\* the Whisper pipeline resolves
TranscriberReturns ==
    /\ run.pc = "transcribing"
    /\ \E result \in Transcriptions : AfterTranscriber(result)

\* processAudio after the await of extractSegmentsFromTimestamps: the
\* segments are stored, the success status is shown, displayResults, finally
RunCompletes ==
    /\ run.pc = "extracted"
    /\ segments' = run.result
    /\ status' = [type |-> "success", msg |-> "Finished processing",
                  n |-> Len(run.result)]
    /\ displayed' = [k \in 1..Len(run.result) |-> run.result[k].id]
    /\ isProcessing' = ProcessingAfterFinally
    /\ reportOf' = Reported(run.cause, Report(status', Len(run.result)))
    /\ run' = [pc |-> "idle"]
    /\ UNCHANGED <<settings, detVars, extVars, downloads, selectable, returned, wavVars, dragVars, audioContext, audioFile, audioBuffer,
                   whisperPipeline, loader, transcriptionInProgress,
                   transcriptionDepth, convs>>

Next ==
    \/ ModelLoaded \/ ModelLoadFailed \/ SetMinSegmentDuration
    \/ ProcessFileRejected \/ ProcessFile
    \/ ConvFileRead \/ ConvDecoded \/ ConvRendered \/ ConvFailed
    \/ ProcessAudioNoFile \/ ProcessAudioBusy \/ ProcessAudioNoBuffer
    \/ ProcessAudioTranscribeThrows \/ ProcessAudioStart
    \/ TranscriberThrows \/ TranscriberReturns \/ RunCompletes

\* the state after the constructor
Init ==
    /\ DragAtRest
    /\ settings = [minSegmentDuration |-> DefaultMinSegmentDuration]
    /\ DetectorAtRest
    /\ PipelineAtRest
    /\ ExtractorAtRest
    /\ downloads = <<>>
    /\ selectable = {FileA, FileB, FileD}
    /\ wavInput = <<>>
    /\ wavBytes = <<>>

Spec == Init /\ [][Next]_vars

\* the state after the constructor, with one audio file and one other file
InitLive ==
    /\ DragAtRest
    /\ settings = [minSegmentDuration |-> DefaultMinSegmentDuration]
    /\ DetectorAtRest
    /\ PipelineAtRest
    /\ ExtractorAtRest
    /\ downloads = <<>>
    /\ selectable = {FileA, FileD}
    /\ wavInput = <<>>
    /\ wavBytes = <<>>

\* the application with one audio file at hand
SpecRuns == InitLive /\ [][Next]_vars

\* the application with its awaits settling: the promise of the Whisper
\* pipeline is settled at some time (it resolves or rejects), and the
\* continuation of processAudio after extractSegmentsFromTimestamps, a
\* microtask, is run by the event loop
SpecLive ==
    /\ InitLive
    /\ [][Next]_vars
    /\ WF_vars(TranscriberThrows \/ TranscriberReturns)
    /\ WF_vars(RunCompletes)

----------------------------------------------------------------------------
(* Properties of the application *)

\* C5: a run whose transcriber call threw or returned empty text ends with an
\* error status, and stores no segments.
C5_Original ==
    reportOf.failed # Null =>
        /\ reportOf.failed.status.type = "error"
        /\ reportOf.failed.stored = 0

\* C6: a run whose transcript yields zero descriptors ends without an error
\* status, and what it reports differs from what a run whose transcription
\* failed reports.
C6_Original ==
    /\ reportOf.zero # Null => reportOf.zero.status.type # "error"
    /\ (reportOf.zero # Null /\ reportOf.failed # Null) =>
          reportOf.zero # reportOf.failed

\* C7: every stored segment buffer has the channel count and the sample rate
\* of the decoded signal of the file it was cut from.
C7_Original ==
    \A k \in 1..Len(segments) :
        LET buffer == segments[k].buffer
            decoded == FileNamed(buffer.data.of)
        IN /\ buffer.numberOfChannels = decoded.numberOfChannels
           /\ buffer.sampleRate = decoded.sampleRate

\* C8: a run transcribes the audio of the file that is selected when it
\* starts and extracts from the audio of the file that is selected when it
\* extracts, and the stored segments are cut from the selected file.
C8_Original ==
    /\ run.pc # "idle" => run.transcribed = run.file
    /\ run.pc = "extracted" => run.extractedFrom = audioFile.name
    /\ \A k \in 1..Len(segments) : segments[k].buffer.data.of = audioFile.name

\* C9: a run starts transcribing only when the conversion of the selected
\* file has finished, and it extracts from the audio whose transcript it
\* detected the segments in.
C9_Original ==
    /\ run.pc # "idle" => ~run.converting
    /\ run.pc = "extracted" => run.extractedFrom = run.transcribed

\* the statuses of the three early returns of processAudio
RejectionMessages ==
    {"select an audio file first", "processing already in progress",
     "audio is still being converted"}

\* C27: at most one processAudio run is in flight: isProcessing is true
\* exactly while a run is between its start and its end, a run starts only
\* when isProcessing is false, a file is selected and a buffer is stored, and
\* a call turned away by one of the three guards starts no transcription and
\* leaves segments, audioBuffer and isProcessing unchanged.
C27_OneRun ==
    /\ [](isProcessing <=> run.pc # "idle")
    /\ [][/\ (run' # run /\ run'.pc = "transcribing") =>
                (~isProcessing /\ audioFile # Null /\ audioBuffer # Null)
          /\ (status' # status /\ status'.msg \in RejectionMessages) =>
                UNCHANGED <<segments, audioBuffer, isProcessing, run,
                            transcriptionInProgress, transcriptionDepth>>]_vars

\* a call was turned away while a run was in flight, the segments of an
\* earlier run being stored
C27_Witness ==
    /\ status.msg = "processing already in progress"
    /\ isProcessing
    /\ run.pc = "transcribing"
    /\ segments # <<>>

\* C28: every started processAudio run eventually ends with isProcessing
\* false, whether the transcriber returns a result, returns empty text or
\* throws, the transcriber call being settled at some time; no run that has
\* ended leaves isProcessing set, and once it has ended a call passes the
\* guards again whenever a file is selected and a buffer is stored.
C28_RunEnds ==
    /\ (run.pc = "transcribing") ~> (run.pc = "idle" /\ ~isProcessing)
    /\ [](run.pc = "idle" => ~isProcessing)
    /\ []((run.pc = "idle" /\ audioFile # Null /\ audioBuffer # Null) =>
             ProcessAudioAccepted)

\* a run whose transcription failed, a run that found no segment and a run
\* that stored segments have ended, and the next call would be accepted
C28_Witness ==
    /\ reportOf.failed # Null
    /\ reportOf.zero # Null
    /\ segments # <<>>
    /\ run.pc = "idle"
    /\ ~isProcessing
    /\ ProcessAudioAccepted

\* the errors of the two re-entrancy guards of transcribeEntireAudio
GuardErrors ==
    {"Transcription recursion detected", "Maximum transcription depth reached"}

\* C30: the re-entrancy guards of the transcription are balanced: whenever no
\* transcribeEntireAudio call is in flight, _transcriptionInProgress is false
\* and _transcriptionDepth is 0, whichever way the last call ended; while one
\* is in flight the flag is set and the depth is 1; and no processAudio call
\* ever ends with "Transcription recursion detected" or "Maximum
\* transcription depth reached".
C30_GuardsBalanced ==
    /\ run.pc # "transcribing" =>
          (~transcriptionInProgress /\ transcriptionDepth = 0)
    /\ run.pc = "transcribing" =>
          (transcriptionInProgress /\ transcriptionDepth = 1)
    /\ status.msg \notin GuardErrors

\* a call is in flight at depth 1 after a call that ended with a result and
\* a call that ended with the empty transcription
C30_Witness ==
    /\ run.pc = "transcribing"
    /\ transcriptionDepth = 1
    /\ reportOf.failed # Null
    /\ segments # <<>>

\* the statuses of the catch block of processAudio
RunErrors ==
    {"Error processing audio", "Whisper pipeline not available"} \cup GuardErrors

\* C33: the stored segment list is replaced only by a processAudio run that
\* completes extraction, which stores what it extracted and then shows it;
\* a run that fails with a thrown error (at transcription, detection or
\* extraction) leaves this.segments exactly as it was and shows no results.
C33_StoredOnlyOnSuccess ==
    [][/\ (segments' # segments \/ displayed' # displayed) =>
             /\ run.pc = "extracted" /\ run'.pc = "idle"
             /\ segments' = run.result
             /\ status'.type = "success"
       /\ (status' # status /\ status'.msg \in RunErrors) =>
             UNCHANGED <<segments, displayed>>
       /\ (run.pc = "transcribing" /\ run'.pc = "idle") =>
             (status'.msg \in RunErrors /\ UNCHANGED <<segments, displayed>>)]_vars

\* a run has failed with an error thrown by the detector while the segments of
\* an earlier run were stored and shown: they still are
C33_Witness ==
    /\ run.pc = "idle"
    /\ status.msg = "Error processing audio"
    /\ segments # <<>>
    /\ Len(displayed) = Len(segments)

====
